---- MODULE Spec2Model ----
(***************************************************************************)
(* A model of gitfs/indexfs.py: the IndexFS node (a file-tree view of a    *)
(* git index), its open/close protocol with per-node registry of open      *)
(* files, directory synthesis, mkdir/rmdir, remove and rename.             *)
(*                                                                         *)
(* Strings are sequences of symbols.  Every symbol is one character,       *)
(* except PLACEHOLDER, which stands for the 18 characters of               *)
(* '.gitfs-placeholder'; no other symbol of the alphabet starts with '.',  *)
(* so comparing symbol by symbol with Code gives Python's byte order.      *)
(*                                                                         *)
(* gitfs.commands (ls_files, cat_file, write_object, update_index) is not  *)
(* part of the source file; it is modelled from the collaborator contracts *)
(* of the specification (IndexStore, ObjectStore).                         *)
(***************************************************************************)
EXTENDS Integers, Sequences, FiniteSets, TLC

\* ------------------------------------------------------------------ bounds
\* Node objects that may exist at once (the root included).
MaxNodes == 3
\* File objects returned by open() in one run.
MaxHandles == 2
\* Longest file content, in bytes.
MaxLen == 1
\* Symbols of the longest path a rename may make ('a-/.gitfs-placeholder').
MaxPath == 4
\* Callback invocations followed per file object.
MaxCalls == 2
\* Symbols of the longest path navigation may reach.
MaxNavPath == 4

\* ----------------------------------------------------------------- strings
SEP == "/"
PLACEHOLDER == ".gitfs-placeholder"
Root == <<>>

\* Byte value deciding Python's str comparison.
Code(c) ==
  CASE c = "-" -> 45
    [] c = PLACEHOLDER -> 46
    [] c = SEP -> 47
    [] c = "a" -> 97
    [] c = "b" -> 98

RECURSIVE StrLess(_, _)
StrLess(s, t) ==
  IF s = <<>> THEN t # <<>>
  ELSE IF t = <<>> THEN FALSE
  ELSE IF Head(s) = Head(t) THEN StrLess(Tail(s), Tail(t))
  ELSE Code(Head(s)) < Code(Head(t))

\* s[:n] and s[n:] of Python.
Take(s, n) == SubSeq(s, 1, IF n < Len(s) THEN n ELSE Len(s))
Drop(s, n) == SubSeq(s, n + 1, Len(s))

StartsWith(s, p) == Len(p) <= Len(s) /\ Take(s, Len(p)) = p

HasSep(s) == \E i \in 1..Len(s) : s[i] = SEP

\* relative.split('/', 1)[0]
SplitHead(s) ==
  IF HasSep(s)
  THEN Take(s, (CHOOSE i \in 1..Len(s) : s[i] = SEP /\ \A j \in 1..(i-1) : s[j] # SEP) - 1)
  ELSE s

\* os.path.join(a, b) of posixpath
PathJoin(a, b) ==
  IF StartsWith(b, <<SEP>>) THEN b
  ELSE IF a = <<>> \/ a[Len(a)] = SEP THEN a \o b
  ELSE a \o <<SEP>> \o b

\* os.path.split(p)[0] of posixpath: everything before the last slash, with
\* trailing slashes stripped unless it consists of slashes only.
RECURSIVE RStripSep(_)
RStripSep(s) ==
  IF s # <<>> /\ s[Len(s)] = SEP THEN RStripSep(Take(s, Len(s) - 1)) ELSE s

SplitDir(p) ==
  IF ~HasSep(p) THEN <<>>
  ELSE LET i == CHOOSE k \in 1..Len(p) : p[k] = SEP /\ \A j \in (k+1)..Len(p) : p[j] # SEP
           head == Take(p, i)
       IN IF RStripSep(head) = <<>> THEN head ELSE RStripSep(head)

\* ------------------------------------------------------------- dictionaries
\* Python dicts as functions whose domain is the set of keys.
EmptyDict == [x \in {} |-> 0]
DictSet(d, k, v) == [x \in (DOMAIN d) \cup {k} |-> IF x = k THEN v ELSE d[x]]
DictDel(d, k) == [x \in (DOMAIN d) \ {k} |-> d[x]]

\* ------------------------------------------------------------------ inputs
\* Segments a caller hands to child(): 'a-' sorts between 'a' and 'a/...'.
A == <<"a">>
B == <<"b">>
ADash == <<"a", "-">>
\* Bytes a caller writes; NUL fills the hole a write past the end leaves.
Bytes == {"x", "y"}
NUL == "nul"
Modes == {"r", "w", "a"}
NodeIds == 1..MaxNodes
HandleIds == 1..MaxHandles
REPO == "repo"
INDEX == "index"

\* ---------------------------------------------------- ObjectStore (commands)
\* An object id is determined by the content and determines it.
Sha1(content) == <<"sha1", content>>
ZeroSha == "0000000000000000000000000000000000000000"
\* write_object(repo, content): the store after the write, and the id.
write_object(objs, content) == [objects |-> objs \cup {Sha1(content)}, object |-> Sha1(content)]
\* cat_file(repo, object): the bytes of a stored object.
cat_file(objs, object) == object[2]

\* ----------------------------------------------------- IndexStore (commands)
\* The index is a dictionary path -> [mode, object].
DefaultMode == "100644"
Entry(idx, p) == [path |-> p, mode |-> idx[p].mode, object |-> idx[p].object]

RECURSIVE SortPaths(_)
SortPaths(S) ==
  IF S = {} THEN <<>>
  ELSE LET m == CHOOSE x \in S : \A y \in S \ {x} : StrLess(x, y)
       IN <<m>> \o SortPaths(S \ {m})

\* Paths the listing of `path` covers: with children, what lies below it (for
\* the root, everything); without, the path itself and what lies below it.
Listed(idx, path, children) ==
  { p \in DOMAIN idx :
      IF children
      THEN path = Root \/ StartsWith(p, path \o <<SEP>>)
      ELSE path = Root \/ p = path \/ StartsWith(p, path \o <<SEP>>) }

\* ls_files(repo, index, path, children): the entries, sorted by path.
ls_files(idx, path, children) ==
  LET ps == SortPaths(Listed(idx, path, children))
  IN [i \in 1..Len(ps) |-> Entry(idx, ps[i])]

\* What ls_files does when the caller leaves `children` out (isdir).
DefaultChildren == FALSE

\* update_index(repo, index, files): every change of the batch, in order; a
\* change of mode '0' removes the path, a change without mode gets the default.
ApplyChange(idx, f) ==
  IF f.mode = "0" THEN DictDel(idx, f.path)
  ELSE DictSet(idx, f.path,
               [mode |-> IF f.mode = "" THEN DefaultMode ELSE f.mode, object |-> f.object])

RECURSIVE update_index(_, _)
update_index(idx, files) ==
  IF files = <<>> THEN idx
  ELSE update_index(ApplyChange(idx, Head(files)), Tail(files))

\* The record of one store call, kept for the last operation.
Call(fn, files, content) == [fn |-> fn, files |-> files, content |-> content]

\* -------------------------------------------------------------------- state
VARIABLES
  index,       \* the git index: path -> [mode, object]
  objects,     \* the object store: ids of the objects written
  nodes,       \* the IndexFS objects: slot -> [used, repo, index, path]
  open_files,  \* self.open_files of each node: path -> set of file objects
  handles,     \* the NotifyOnCloseFile objects returned by open()
  work,        \* the scratch directory: file name -> inode
  inodes,      \* the scratch files' contents: inode -> bytes
  last         \* the last operation: what was called, what it raised, the
               \* store calls it made, the callback invocations, its result

vars == <<index, objects, nodes, open_files, handles, work, inodes, last>>

NoNode == [used |-> FALSE, repo |-> "", index |-> "", path |-> Root]
NoHandle == [st |-> "free", node |-> 0, name |-> <<>>, mode |-> "", pos |-> 0, ino |-> 0, cb |-> 0]

\* IndexFS.__init__(repo, index, path); its open_files starts as {}.
IndexFS(repo, idx, path) == [used |-> TRUE, repo |-> repo, index |-> idx, path |-> path]

\* op: the method; n: the node it was called on; m: its node argument; h: the
\* file object; exc: the exception raised ("" for none); calls: the store calls
\* made; cb: the callback invocations; ret: the path of the node returned;
\* res: the value returned by a comparison.
Op(op, n, m, h, exc, calls, cb, ret) ==
  [op |-> op, n |-> n, m |-> m, h |-> h, exc |-> exc, calls |-> calls, cb |-> cb,
   ret |-> ret, res |-> ""]

\* ---------------------------------------------------------------- navigation
\* join(relpath): the exception raised, or the new node.
\* (mutant) no relative path is taken for an absolute one.
IsAbsoluteNever(relpath) == FALSE

\* relpath.startswith(u'/')
IsAbsolute(relpath) == StartsWith(relpath, <<SEP>>)

join(self, relpath) ==
  IF IsAbsolute(relpath)
  THEN [exc |-> "InsecurePathError", node |-> NoNode]
  ELSE [exc |-> "", node |-> IndexFS(self.repo, self.index, PathJoin(self.path, relpath))]

\* child(*segments)
RECURSIVE child(_, _)
child(self, segments) ==
  IF segments = <<>> THEN [exc |-> "", node |-> self]
  ELSE IF HasSep(Head(segments)) THEN [exc |-> "InsecurePathError", node |-> NoNode]
  ELSE IF Head(segments) = <<".", ".">> THEN [exc |-> "InsecurePathError", node |-> NoNode]
  ELSE LET p == join(self, Head(segments))
       IN IF p.exc # "" THEN p ELSE child(p.node, Tail(segments))

\* parent()
parent(self) == IndexFS(self.repo, self.index, SplitDir(self.path))

\* None, where an object id is expected.
NoneObject == <<>>
RECURSIVE FirstExact(_, _)
FirstExact(listing, path) ==
  IF listing = <<>> THEN NoneObject
  ELSE IF Head(listing).path # path THEN FirstExact(Tail(listing), path)
  ELSE Head(listing).object

\* (mutant) _get_sha1 that never finds the entry.
_get_sha1_never(idx, self) == NoneObject

\* _get_sha1(): the object of the entry at exactly self.path, or None.
_get_sha1(idx, self) == FirstExact(ls_files(idx, self.path, FALSE), self.path)

\* The scratch file of a path: index + '.' + sha1(path) + '.work'.
WorkName(self) == <<self.index, self.path, "work">>

\* ------------------------------------------------------------ open and close
\* What a handler works on: the stores, every node's registry, the scratch
\* directory and the store calls made so far.
Env(idx, objs, ofs, wk, ino, calls) ==
  [index |-> idx, objects |-> objs, open_files |-> ofs, work |-> wk, inodes |-> ino, calls |-> calls]

Here == Env(index, objects, open_files, work, inodes, <<>>)

\* Lowest free slot, so that equal runs allocate equal objects.
FreeHandle == CHOOSE h \in HandleIds : handles[h].st = "free" /\ \A g \in 1..(h-1) : handles[g].st # "free"
FreeNode == CHOOSE n \in NodeIds : ~nodes[n].used /\ \A g \in 1..(n-1) : nodes[g].used

\* open(mode), lines 103-123: with no entry in self.open_files, stage the
\* indexed content (or '') into a new scratch file renamed over the work name,
\* and register an empty set.  The new inode is numbered after the handle.
Stage(e, n, self, h) ==
  IF self.path \in DOMAIN e.open_files[n] THEN e
  ELSE LET object == _get_sha1(e.index, self)
           content == IF object # NoneObject THEN cat_file(e.objects, object) ELSE <<>>
       IN [e EXCEPT !.work = DictSet(e.work, WorkName(self), h),
                    !.inodes = DictSet(e.inodes, h, content),
                    !.open_files = [e.open_files EXCEPT ![n] = DictSet(@, self.path, {})]]

\* file(work, mode): 'r' needs the file, 'w' truncates or creates it, 'a'
\* creates it when missing and writes at its end.  The exception, the scratch directory, the handle.
FileOpen(e, n, self, mode, h) ==
  LET name == WorkName(self)
      there == name \in DOMAIN e.work
      ino == IF there THEN e.work[name] ELSE h
  IN IF mode = "r" /\ ~there THEN [exc |-> "IOError", env |-> e, handle |-> NoHandle]
     ELSE [exc |-> "",
           env |-> [e EXCEPT !.work = DictSet(e.work, name, ino),
                             !.inodes = IF ~there \/ mode = "w"
                                        THEN DictSet(e.inodes, ino, <<>>) ELSE e.inodes],
           handle |-> [st |-> "open", node |-> n, name |-> name, mode |-> mode,
                       pos |-> 0, ino |-> ino, cb |-> 0]]

\* open(mode), the whole method.
open(e, n, self, mode, h) ==
  LET staged == Stage(e, n, self, h)
      f == FileOpen(staged, n, self, mode, h)
  IN IF f.exc # "" THEN f
     ELSE [f EXCEPT !.env.open_files[n][self.path] = @ \cup {h}]

\* (mutant) every close counts as the last one.
LastUserAlways(current_users) == TRUE

\* `if not current_users`: the last user closed the file.
LastUser(current_users) == current_users = {}

\* (mutant) the index entry of a closed file under the parent's path.
ClosedFileEntryAtParent(self, object) ==
  [path |-> SplitDir(self.path), mode |-> "", object |-> object]

\* The change _close_file hands to update_index: object and path, no mode.
ClosedFileEntry(self, object) == [path |-> self.path, mode |-> "", object |-> object]

\* The store calls of _close_file that may raise, and `fail` for none raising.
StoreCalls == {"write_object", "update_index"}
NoFailure == "none"

\* _close_file(f), lines 129-155, for the node the callback is bound to.
\* `closed` says whether f is closed already (flush then raises ValueError);
\* `fail` names the store call that raises, if one does: the scratch file is
\* unlinked by then and the registry key is not deleted yet.
_close_file_failing(e, n, self, h, name, closed, fail) ==
  IF closed THEN [exc |-> "ValueError", env |-> e]
  ELSE IF self.path \notin DOMAIN e.open_files[n] THEN [exc |-> "KeyError", env |-> e]
  ELSE IF h \notin e.open_files[n][self.path] THEN [exc |-> "KeyError", env |-> e]
  ELSE LET removed == [e EXCEPT !.open_files[n][self.path] = @ \ {h}]
       IN IF ~LastUser(removed.open_files[n][self.path]) THEN [exc |-> "", env |-> removed]
          ELSE IF name \notin DOMAIN removed.work THEN [exc |-> "IOError", env |-> removed]
          ELSE LET content == removed.inodes[removed.work[name]]
                   unlinked == [removed EXCEPT !.work = DictDel(@, name)]
                   w == write_object(removed.objects, content)
                   files == << ClosedFileEntry(self, w.object) >>
               IN IF fail = "write_object"
                  THEN [exc |-> "StoreError",
                        env |-> [unlinked EXCEPT
                          !.calls = @ \o << Call("write_object", <<>>, content) >>]]
                  ELSE IF fail = "update_index"
                  THEN [exc |-> "StoreError",
                        env |-> [unlinked EXCEPT
                          !.objects = w.objects,
                          !.calls = @ \o << Call("write_object", <<>>, content),
                                            Call("update_index", files, <<>>) >>]]
                  ELSE [exc |-> "",
                        env |-> [unlinked EXCEPT
                          !.objects = w.objects,
                          !.index = update_index(@, files),
                          !.calls = @ \o << Call("write_object", <<>>, content),
                                            Call("update_index", files, <<>>) >>,
                          !.open_files[n] = DictDel(@, self.path)]]

\* _close_file(f) with both stores answering.
_close_file(e, n, self, h, name, closed) ==
  _close_file_failing(e, n, self, h, name, closed, NoFailure)

Min(a, b) == IF a < b THEN a ELSE b

\* NotifyOnCloseFile.close(), lines 20-22: the callback, then file.close().
\* `f` is the file object and `self` the node its callback is bound to; a
\* callback that raises leaves the file open.
close(e, self, h, f) ==
  LET r == _close_file(e, f.node, self, h, f.name, f.st = "closed")
  IN [exc |-> r.exc, env |-> r.env, cb |-> 1,
      closed |-> IF r.exc = "" THEN TRUE ELSE f.st = "closed"]

\* close() during which the store call `fail` raises.
close_failing(e, self, h, f, fail) ==
  LET r == _close_file_failing(e, f.node, self, h, f.name, f.st = "closed", fail)
  IN [exc |-> r.exc, env |-> r.env, cb |-> 1,
      closed |-> IF r.exc = "" THEN TRUE ELSE f.st = "closed"]

\* NotifyOnCloseFile.__exit__(), lines 24-26: the callback, then file.__exit__.
\* file.__exit__ closes the file itself in Python 2.5 and calls self.close()
\* from Python 2.6 on: `viaClose` says which interpreter runs the program.
exit(e, self, h, f, viaClose) ==
  LET r == _close_file(e, f.node, self, h, f.name, f.st = "closed")
  IN IF r.exc # "" THEN [exc |-> r.exc, env |-> r.env, cb |-> 1, closed |-> f.st = "closed"]
     ELSE IF ~viaClose THEN [exc |-> "", env |-> r.env, cb |-> 1, closed |-> TRUE]
     ELSE LET c == close(r.env, self, h, f)
          IN [c EXCEPT !.cb = 2]

\* A closed file object holds no descriptor.
Released(f, cb) == [f EXCEPT !.st = "closed", !.pos = 0, !.ino = 0, !.cb = Min(f.cb + cb, MaxCalls)]

\* The kernel frees a scratch inode once it has neither a name nor a descriptor.
LiveInodes(wk, hs) ==
  {wk[k] : k \in DOMAIN wk} \cup {hs[h].ino : h \in {g \in HandleIds : hs[g].st = "open"}}

Commit(e, hs) ==
  /\ index' = e.index
  /\ objects' = e.objects
  /\ open_files' = e.open_files
  /\ work' = e.work
  /\ handles' = hs
  /\ inodes' = [i \in (DOMAIN e.inodes) \cap LiveInodes(e.work, hs) |-> e.inodes[i]]

\* File write: one byte at the position of the file object;
\* a write past the end fills the hole with NUL.  Writes reach the scratch file
\* at once (no user-space buffer is modelled).
RECURSIVE Pad(_, _)
Pad(content, n) == IF Len(content) >= n THEN content ELSE Pad(Append(content, NUL), n)

WriteAt(content, pos, b) ==
  LET padded == Pad(content, pos)
  IN Take(padded, pos) \o <<b>> \o Drop(padded, pos + 1)

\* ------------------------------------------------------------ comparisons
\* __eq__(other); a value that is no IndexFS is a record with used = FALSE.
__eq__(self, other) ==
  IF ~other.used THEN "NotImplemented"
  ELSE IF self.repo # other.repo \/ self.index # other.index THEN "False"
  ELSE IF self.path # other.path THEN "False"
  ELSE "True"

\* The expression `a == b`: NotImplemented from both sides falls back to
\* identity, and two distinct objects are then unequal.
OperatorEq(a, b) ==
  IF __eq__(a, b) # "NotImplemented" THEN __eq__(a, b) = "True"
  ELSE FALSE

\* __ne__(other): not self == other
__ne__(self, other) == IF OperatorEq(self, other) THEN "False" ELSE "True"

\* __lt__(other) and __gt__(other)
__lt__(self, other) ==
  IF ~other.used THEN "NotImplemented"
  ELSE IF self.repo # other.repo \/ self.index # other.index THEN "NotImplemented"
  ELSE IF StrLess(self.path, other.path) THEN "True" ELSE "False"

__gt__(self, other) ==
  IF ~other.used THEN "NotImplemented"
  ELSE IF self.repo # other.repo \/ self.index # other.index THEN "NotImplemented"
  ELSE IF StrLess(other.path, self.path) THEN "True" ELSE "False"

\* The expressions `a < b` and `a > b` of Python 2: NotImplemented from the
\* method and from the reflected method of the other operand falls back to the
\* default ordering, which for two objects of one type compares addresses:
\* `addr` is what that comparison gives.
OperatorLt(a, b, addr) ==
  IF __lt__(a, b) # "NotImplemented" THEN __lt__(a, b) = "True" ELSE addr

OperatorGt(a, b, addr) ==
  IF __gt__(a, b) # "NotImplemented" THEN __gt__(a, b) = "True" ELSE addr

\* __le__(other): self < other or self == other
__le__(self, other, addr) ==
  IF ~other.used THEN "NotImplemented"
  ELSE IF OperatorLt(self, other, addr) \/ OperatorEq(self, other) THEN "True" ELSE "False"

\* __ge__(other): self > other or self == other
__ge__(self, other, addr) ==
  IF ~other.used THEN "NotImplemented"
  ELSE IF OperatorGt(self, other, addr) \/ OperatorEq(self, other) THEN "True" ELSE "False"

\* ------------------------------------------------------------------ queries
\* (mutant) exists() that lists only what lies below the path.
exists_below(idx, self) ==
  IF self.path = Root THEN TRUE
  ELSE ls_files(idx, self.path, TRUE) # <<>>

\* exists()
exists(idx, self) ==
  IF self.path = Root THEN TRUE
  ELSE ls_files(idx, self.path, FALSE) # <<>>

\* (mutant) isdir() that lists only what lies below the path.
isdir_below(idx, self) == ls_files(idx, self.path, TRUE) # <<>>

\* isdir()
isdir(idx, self) == ls_files(idx, self.path, DefaultChildren) # <<>>

\* __iter__(): the paths of the nodes yielded, in order.  `lastSubdir` is the
\* loop's last_subdir, None at first.
NoneStr == <<"None">>

\* (mutant) no entry is taken for one of the subdirectory just yielded.
SameSubdirNever(head, lastSubdir) == FALSE

\* `if head == last_subdir`: the subdirectory was handled already.
SameSubdir(head, lastSubdir) == head = lastSubdir

RECURSIVE IterFrom(_, _, _)
IterFrom(self, listing, lastSubdir) ==
  IF listing = <<>> THEN <<>>
  ELSE LET prefix == IF self.path = Root THEN <<>> ELSE self.path \o <<SEP>>
           relative == Drop(Head(listing).path, Len(prefix))
           head == SplitHead(relative)
       IN IF relative = <<PLACEHOLDER>> THEN IterFrom(self, Tail(listing), lastSubdir)
          ELSE IF HasSep(relative)
          THEN IF SameSubdir(head, lastSubdir) THEN IterFrom(self, Tail(listing), lastSubdir)
               ELSE <<child(self, <<head>>).node.path>> \o IterFrom(self, Tail(listing), head)
          ELSE <<child(self, <<relative>>).node.path>> \o IterFrom(self, Tail(listing), lastSubdir)

__iter__(idx, self) == IterFrom(self, ls_files(idx, self.path, TRUE), NoneStr)

\* --------------------------------------------------- mkdir, remove, rename
\* (mutant) the placeholder gets a byte of content.
OneByteContent == <<"x">>

EmptyContent == <<>>

\* mkdir(may_exist, create_parents): the exception, or the stores after it.
mkdir(e, self, may_exist, create_parents) ==
  IF ~may_exist /\ exists(e.index, self) THEN [exc |-> "EEXIST", env |-> e]
  ELSE IF ~create_parents /\ __ne__(parent(self), self) = "True"
          /\ ~exists(e.index, parent(self))
  THEN [exc |-> "ENOENT", env |-> e]
  ELSE LET w == write_object(e.objects, EmptyContent)
           files == << [path |-> child(self, <<<<PLACEHOLDER>>>>).node.path,
                        mode |-> "100644", object |-> w.object] >>
       IN [exc |-> "",
           env |-> [e EXCEPT !.objects = w.objects,
                             !.index = update_index(@, files),
                             !.calls = @ \o << Call("write_object", <<>>, EmptyContent),
                                               Call("update_index", files, <<>>) >>]]

\* (mutant) remove() that removes every entry at the path and beneath it.
remove_tree(e, self) ==
  LET listing == ls_files(e.index, self.path, FALSE)
      files == [i \in 1..Len(listing) |->
                  [path |-> listing[i].path, mode |-> "0", object |-> ZeroSha]]
  IN [exc |-> "",
      env |-> [e EXCEPT !.index = update_index(@, files),
                        !.calls = @ \o << Call("update_index", files, <<>>) >>]]

\* remove()
remove(e, self) ==
  LET files == << [path |-> self.path, mode |-> "0", object |-> ZeroSha] >>
  IN [exc |-> "",
      env |-> [e EXCEPT !.index = update_index(@, files),
                        !.calls = @ \o << Call("update_index", files, <<>>) >>]]

\* (mutant) rmdir that removes the path itself.
rmdir_self(e, self) == remove(e, self)

\* rmdir()
rmdir(e, self) == remove(e, child(self, <<<<PLACEHOLDER>>>>).node)

\* (mutant) every entry is moved to the target path itself.
RewrittenFlat(self, new_path, data) == [data EXCEPT !.path = new_path.path]

\* The generator g() of rename: every listed entry with its path rewritten.
\* An entry that is neither self.path nor below it fails the assertion.
Rewritten(self, new_path, data) ==
  IF data.path = self.path THEN [data EXCEPT !.path = new_path.path]
  ELSE [data EXCEPT !.path = new_path.path \o <<SEP>> \o Drop(data.path, Len(self.path) + 1)]

AssertionFails(self, data) ==
  data.path # self.path /\ Take(data.path, Len(self.path) + 1) # self.path \o <<SEP>>

\* (mutant) self.path is set before update_index has answered.
RenamedPathEarly(self, new_path, raised) == new_path.path

\* self.path after rename(): `self.path = new_path.path` comes after the
\* update_index call, so an exception leaves the path as it was.
RenamedPath(self, new_path, raised) == IF raised THEN self.path ELSE new_path.path

\* rename(new_path): the exception, or the stores and self.path after it.
\* `fail` says that update_index raises; the index is then as before.
rename_failing(e, self, new_path, fail) ==
  IF ~new_path.used
  THEN [exc |-> "CrossDeviceRenameError", env |-> e, path |-> self.path]
  ELSE LET listing == ls_files(e.index, self.path, FALSE)
           files == [i \in 1..Len(listing) |-> Rewritten(self, new_path, listing[i])]
       IN IF \E i \in 1..Len(listing) : AssertionFails(self, listing[i])
          THEN [exc |-> "AssertionError", env |-> e, path |-> self.path]
          ELSE IF fail
          THEN [exc |-> "StoreError",
                env |-> [e EXCEPT !.calls = @ \o << Call("update_index", files, <<>>) >>],
                path |-> RenamedPath(self, new_path, TRUE)]
          ELSE [exc |-> "",
                env |-> [e EXCEPT !.index = update_index(@, files),
                                  !.calls = @ \o << Call("update_index", files, <<>>) >>],
                path |-> RenamedPath(self, new_path, FALSE)]

\* rename(new_path) with the index store answering.
rename(e, self, new_path) == rename_failing(e, self, new_path, FALSE)

\* ------------------------------------------------------------ node values
\* The root of the tree, and the nodes child() makes of it.
RootNode == IndexFS(REPO, INDEX, Root)
NodesOf(segmentLists) == { child(RootNode, ss).node : ss \in segmentLists }
\* The nodes files are opened through.
FileNodes == NodesOf({ <<A>>, <<B>>, <<A, B>> })
\* The nodes the tree is changed through.
TreeNodes == NodesOf({ <<>>, <<A>>, <<ADash>>, <<A, B>> })

\* What a caller writes into a file of the tree.
TreeContents == { [i \in 1..MaxLen |-> "x"] }
\* The nodes compared: two repositories, two indexes, and a value that is no
\* IndexFS at all.
CmpNodes == { IndexFS(r, i, p) : r \in {REPO, "repo2"}, i \in {INDEX, "index2"},
                                p \in {Root, A, ADash} } \cup {NoNode}

\* ------------------------------------------------------------------ actions
Init ==
  /\ index = EmptyDict
  /\ objects = {}
  /\ nodes = [n \in NodeIds |-> NoNode]
  /\ open_files = [n \in NodeIds |-> EmptyDict]
  /\ handles = [h \in HandleIds |-> NoHandle]
  /\ work = EmptyDict
  /\ inodes = EmptyDict
  /\ last = Op("init", NoNode, NoNode, 0, "", <<>>, 0, Root)

\* f = self.open(mode).  A node is a value until a file is opened through
\* it; from then on it is the object in slot n, which owns a registry.
Open(n, self, mode) ==
  /\ self.path # Root
  /\ \/ nodes[n].used /\ self = nodes[n]
     \/ ~nodes[n].used /\ n = FreeNode
  /\ \E h \in HandleIds : handles[h].st = "free"
  /\ LET h == FreeHandle
         r == open(Here, n, self, mode, h)
     IN /\ Commit(r.env, [handles EXCEPT ![h] = r.handle])
        /\ last' = Op("open", self, NoNode, IF r.exc = "" THEN h ELSE 0, r.exc, r.env.calls, 0, Root)
  /\ nodes' = [nodes EXCEPT ![n] = self]

\* f.write(b)
Write(h, b) ==
  /\ handles[h].st = "open"
  /\ handles[h].mode \in {"w", "a"}
  /\ LET f == handles[h]
         content == inodes[f.ino]
         pos == IF f.mode = "a" THEN Len(content) ELSE f.pos
     IN /\ pos < MaxLen
        /\ inodes' = [inodes EXCEPT ![f.ino] = WriteAt(content, pos, b)]
        /\ handles' = [handles EXCEPT ![h].pos = pos + 1]
  /\ last' = Op("write", nodes[handles[h].node], NoNode, h, "", <<>>, 0, Root)
  /\ UNCHANGED <<index, objects, nodes, open_files, work>>

\* f.close()
Close(h) ==
  /\ handles[h].st # "free"
  /\ handles[h].cb < MaxCalls
  /\ LET f == handles[h]
         r == close(Here, nodes[f.node], h, f)
     IN /\ Commit(r.env, [handles EXCEPT ![h] =
                  IF r.closed THEN Released(f, r.cb) ELSE [f EXCEPT !.cb = Min(f.cb + r.cb, MaxCalls)]])
        /\ last' = Op("close", nodes[f.node], NoNode, h, r.exc, r.env.calls, r.cb, Root)
  /\ UNCHANGED nodes

\* The end of `with f:` -- f.__exit__(...)
Exit(h, viaClose) ==
  /\ handles[h].st # "free"
  /\ handles[h].cb < MaxCalls
  /\ LET f == handles[h]
         r == exit(Here, nodes[f.node], h, f, viaClose)
     IN /\ Commit(r.env, [handles EXCEPT ![h] =
                  IF r.closed THEN Released(f, r.cb) ELSE [f EXCEPT !.cb = Min(f.cb + r.cb, MaxCalls)]])
        /\ last' = Op("exit", nodes[f.node], NoNode, h, r.exc, r.env.calls, r.cb, Root)
  /\ UNCHANGED nodes

\* f.close() while a store is failing: the close reaches the store call
\* `fail`, which raises.
CloseFailing(h, fail) ==
  /\ handles[h].st # "free"
  /\ handles[h].cb < MaxCalls
  /\ LET f == handles[h]
         r == close_failing(Here, nodes[f.node], h, f, fail)
     IN /\ r.exc = "StoreError"
        /\ Commit(r.env, [handles EXCEPT ![h] = [f EXCEPT !.cb = Min(f.cb + r.cb, MaxCalls)]])
        /\ last' = Op("close", nodes[f.node], NoNode, h, r.exc, r.env.calls, r.cb, Root)
  /\ UNCHANGED nodes

NextFile ==
  \/ \E n \in NodeIds, self \in FileNodes, mode \in Modes : Open(n, self, mode)
  \/ \E h \in HandleIds, b \in Bytes : Write(h, b)
  \/ \E h \in HandleIds : Close(h)
  \/ \E h \in HandleIds, viaClose \in BOOLEAN : Exit(h, viaClose)

SpecFile == Init /\ [][NextFile]_vars

\* The same program with stores that may fail during a close.
NextFailing ==
  \/ NextFile
  \/ \E h \in HandleIds, fail \in StoreCalls : CloseFailing(h, fail)

SpecFailing == Init /\ [][NextFailing]_vars

\* f = self.open('w'); f.write(content); f.close() -- a file written through
\* a node nothing else holds: the node, its registry and the file object are
\* gone when the statement ends.
RECURSIVE WriteAll(_, _, _)
WriteAll(old, pos, content) ==
  IF content = <<>> THEN old
  ELSE WriteAll(WriteAt(old, pos, Head(content)), pos + 1, Tail(content))

WriteFile(self, content) ==
  /\ self.path # Root
  /\ \A n \in NodeIds : ~nodes[n].used
  /\ \A h \in HandleIds : handles[h].st = "free"
  /\ LET o == open(Here, 1, self, "w", 1)
         written == [o.env EXCEPT !.inodes[o.handle.ino] = WriteAll(@, 0, content)]
         c == close(written, self, 1, o.handle)
     IN /\ Commit(c.env, handles)
        /\ last' = Op("writefile", self, NoNode, 0, c.exc, c.env.calls, c.cb, Root)
  /\ UNCHANGED nodes

\* self.mkdir(may_exist, create_parents)
Mkdir(self, may_exist, create_parents) ==
  /\ LET r == mkdir(Here, self, may_exist, create_parents)
     IN /\ Commit(r.env, handles)
        /\ last' = Op("mkdir", self, NoNode, 0, r.exc, r.env.calls, 0, Root)
  /\ UNCHANGED nodes

\* self.remove() or self.unlink()
Remove(self) ==
  /\ LET r == remove(Here, self)
     IN /\ Commit(r.env, handles)
        /\ last' = Op("remove", self, NoNode, 0, r.exc, r.env.calls, 0, Root)
  /\ UNCHANGED nodes

\* self.rmdir()
Rmdir(self) ==
  /\ LET r == rmdir(Here, self)
     IN /\ Commit(r.env, handles)
        /\ last' = Op("rmdir", self, NoNode, 0, r.exc, r.env.calls, 0, Root)
  /\ UNCHANGED nodes

\* self.rename(new_path), the target another node (not the root: an empty
\* target path makes entries the index has no name for).  `ret` is the path of
\* the node returned, which is self.
Rename(self, new_path) ==
  /\ new_path.used => new_path.path # Root
  /\ LET r == rename(Here, self, new_path)
     IN /\ \A p \in DOMAIN r.env.index : Len(p) <= MaxPath
        /\ Commit(r.env, handles)
        /\ last' = Op("rename", self, new_path, 0, r.exc, r.env.calls, 0, r.path)
  /\ UNCHANGED nodes

\* self.rename(new_path) during which update_index raises.
RenameFailing(self, new_path) ==
  /\ new_path.path # Root
  /\ LET r == rename_failing(Here, self, new_path, TRUE)
     IN /\ r.exc = "StoreError"
        /\ Commit(r.env, handles)
        /\ last' = Op("rename", self, new_path, 0, r.exc, r.env.calls, 0, r.path)
  /\ UNCHANGED nodes

NextTree ==
  \/ \E self \in TreeNodes, content \in TreeContents : WriteFile(self, content)
  \/ \E self \in TreeNodes, may_exist \in BOOLEAN, create_parents \in BOOLEAN :
        Mkdir(self, may_exist, create_parents)
  \/ \E self \in TreeNodes : Remove(self)
  \/ \E self \in TreeNodes : Rmdir(self)
  \/ \E self, new_path \in TreeNodes : Rename(self, new_path)

SpecTree == Init /\ [][NextTree]_vars

\* Entries are removed while files are open: files are opened and closed
\* through nodes, directories are made, and paths are removed meanwhile.
NextRemove ==
  \/ \E n \in NodeIds, self \in FileNodes, mode \in {"w", "a"} : Open(n, self, mode)
  \/ \E h \in HandleIds : Close(h)
  \/ \E self \in FileNodes : Mkdir(self, TRUE, TRUE)
  \/ \E self \in FileNodes \cup {RootNode} : Remove(self)
  \/ \E self \in FileNodes \cup {RootNode} : Rmdir(self)

SpecRemove == Init /\ [][NextRemove]_vars

\* The tree with renames that fail: the target is no IndexFS, or the index
\* store raises.
NextRename ==
  \/ NextTree
  \/ \E self \in TreeNodes : Rename(self, NoNode)
  \/ \E self, new_path \in TreeNodes : RenameFailing(self, new_path)

SpecRename == Init /\ [][NextRename]_vars

\* Two nodes to compare, made by IndexFS(repo, index, path).
InitCmp ==
  /\ index = EmptyDict
  /\ objects = {}
  /\ nodes \in [NodeIds -> CmpNodes]
  /\ nodes[1].used
  /\ \A n \in NodeIds : n > 2 => nodes[n] = NoNode
  /\ open_files = [n \in NodeIds |-> EmptyDict]
  /\ handles = [h \in HandleIds |-> NoHandle]
  /\ work = EmptyDict
  /\ inodes = EmptyDict
  /\ last = Op("init", NoNode, NoNode, 0, "", <<>>, 0, Root)

\* nodes[1].__op__(nodes[2]), the method called directly
Compare(op, addr) ==
  /\ last' = [Op(op, nodes[1], nodes[2], 0, "", <<>>, 0, Root) EXCEPT !.res =
       CASE op = "__eq__" -> __eq__(nodes[1], nodes[2])
         [] op = "__ne__" -> __ne__(nodes[1], nodes[2])
         [] op = "__lt__" -> __lt__(nodes[1], nodes[2])
         [] op = "__gt__" -> __gt__(nodes[1], nodes[2])
         [] op = "__le__" -> __le__(nodes[1], nodes[2], addr)
         [] op = "__ge__" -> __ge__(nodes[1], nodes[2], addr)]
  /\ UNCHANGED <<index, objects, nodes, open_files, handles, work, inodes>>

CmpOps == {"__eq__", "__ne__", "__lt__", "__gt__", "__le__", "__ge__"}

NextCmp == \E op \in CmpOps, addr \in BOOLEAN : Compare(op, addr)

SpecCmp == InitCmp /\ [][NextCmp]_vars

\* nodes[n].rename(new_path) while files opened through the node are still
\* open: rename() rewrites the index and sets self.path; the node's registry
\* and the scratch files stay as they are.
RenameOpen(n, new_path) ==
  /\ nodes[n].used
  /\ open_files[n] # EmptyDict
  /\ new_path.path # Root
  /\ LET r == rename(Here, nodes[n], new_path)
     IN /\ \A p \in DOMAIN r.env.index : Len(p) <= MaxPath
        /\ Commit(r.env, handles)
        /\ nodes' = [nodes EXCEPT ![n].path = r.path]
        /\ last' = Op("rename", nodes[n], new_path, 0, r.exc, r.env.calls, 0, r.path)

\* Files are opened and closed through nodes that are renamed meanwhile.
NextMove ==
  \/ \E n \in NodeIds, self \in FileNodes, mode \in Modes : Open(n, self, mode)
  \/ \E h \in HandleIds : Close(h)
  \/ \E n \in NodeIds, new_path \in FileNodes : RenameOpen(n, new_path)

SpecMove == Init /\ [][NextMove]_vars

\* ---------------------------------------------------------- navigation
\* What a caller passes to join(), and the segment lists it passes to child().
NavStrings ==
  { <<>>, <<"a">>, <<"b">>, <<SEP>>, <<SEP, "a">>, <<"a", SEP, "b">>, <<"a", SEP>>,
    <<".", ".">>, <<".", ".", SEP, "a">> }
NavSegments == { <<"a">>, <<"b">>, <<".", ".">>, <<"a", SEP, "b">>, <<SEP>>, <<".">> }
NavSegmentLists ==
  { <<x>> : x \in NavSegments } \cup { <<x, y>> : x \in NavSegments, y \in NavSegments }

\* The program holds one node, the root at first, and navigates from it.
InitNav ==
  /\ index = EmptyDict
  /\ objects = {}
  /\ nodes = [n \in NodeIds |-> IF n = 1 THEN RootNode ELSE NoNode]
  /\ open_files = [n \in NodeIds |-> EmptyDict]
  /\ handles = [h \in HandleIds |-> NoHandle]
  /\ work = EmptyDict
  /\ inodes = EmptyDict
  /\ last = Op("init", NoNode, NoNode, 0, "", <<>>, 0, Root)

\* The node held becomes the node a navigation call returned; a call that
\* raised returned none (m is NoNode) and the node held stays.
Navigate(op, r) ==
  /\ Len(r.node.path) <= MaxNavPath
  /\ nodes' = [nodes EXCEPT ![1] = IF r.exc = "" THEN r.node ELSE @]
  /\ last' = Op(op, nodes[1], r.node, 0, r.exc, <<>>, 0, r.node.path)
  /\ UNCHANGED <<index, objects, open_files, handles, work, inodes>>

\* self = self.join(relpath)
Join(relpath) ==
  /\ nodes[1].used
  /\ Navigate("join", join(nodes[1], relpath))

\* self = self.child(*segments)
Child(segments) ==
  /\ nodes[1].used
  /\ Navigate("child", child(nodes[1], segments))

\* self = self.parent()
Parent ==
  /\ nodes[1].used
  /\ Navigate("parent", [exc |-> "", node |-> parent(nodes[1])])

NextNav ==
  \/ \E relpath \in NavStrings : Join(relpath)
  \/ \E segments \in NavSegmentLists : Child(segments)
  \/ Parent

SpecNav == InitNav /\ [][NextNav]_vars

\* ===================================================================== claims
\* The live-handle set a node keeps for a path (empty when it has no key).
LiveSet(ofs, n, path) == IF path \in DOMAIN ofs[n] THEN ofs[n][path] ELSE {}

\* The step is a close() or the end of a with-block.
ClosingStep == last'.op \in {"close", "exit"}

\* No other node object of the program denotes the path of node n.
OnlyNodeOnPath(n) ==
  \A m \in NodeIds \ {n} : nodes[m].used => nodes[m].path # nodes[n].path

\* What the last close of a path persists: the scratch content as a new object,
\* then one index update mapping the path to it.
Persisted(path, content) ==
  << Call("write_object", <<>>, content),
     Call("update_index", << [path |-> path, mode |-> "", object |-> Sha1(content)] >>, <<>>) >>

\* C1: with every handle on a path opened through one node, a close persists
\* (one ObjectStore.write, then one IndexStore.update_entries for the path)
\* exactly when it removes the last handle of the path's live-handle set; a
\* close that leaves a handle live, an open and a write make no store call and
\* leave the index and the object store alone.
C1_PersistOnLastCloseOnly ==
  [][ /\ (ClosingStep /\ OnlyNodeOnPath(handles[last'.h].node)) =>
           LET h == last'.h
               n == handles[h].node
               path == nodes[n].path
               was == LiveSet(open_files, n, path)
           IN IF h \in was /\ was \ {h} = {}
              THEN /\ last'.calls = Persisted(path, inodes[work[handles[h].name]])
                   /\ LiveSet(open_files', n, path) = {}
              ELSE /\ last'.calls = <<>>
                   /\ index' = index
                   /\ objects' = objects
      /\ last'.op \in {"open", "write"} =>
           last'.calls = <<>> /\ index' = index /\ objects' = objects
    ]_vars

\* Two handles were opened on one path through one node, both are closed, and
\* the close just made, the second, persisted.
C1_Witness ==
  /\ last.op = "close"
  /\ last.calls # <<>>
  /\ \E h, g \in HandleIds :
       /\ h # g
       /\ handles[h].st = "closed" /\ handles[g].st = "closed"
       /\ handles[h].node = handles[g].node
       /\ handles[h].name = handles[g].name
       /\ handles[h].cb = 1 /\ handles[g].cb = 1

\* The file objects that are open on a scratch file name and registered with
\* their node.
LiveOn(name) ==
  { g \in HandleIds :
      /\ handles[g].st = "open"
      /\ handles[g].name = name
      /\ g \in LiveSet(open_files, handles[g].node, nodes[handles[g].node].path) }

\* C2: two node values that denote one (repository, index, path) share the
\* live-handle set: an open made while a handle on the path is live does not
\* stage the scratch file again, and a close made while another handle on the
\* path is live does not write back.
C2_SharedLiveSet ==
  [][ /\ (last'.op = "open" /\ last'.exc = "" /\ LiveOn(WorkName(last'.n)) # {}) =>
           /\ WorkName(last'.n) \in DOMAIN work
           /\ work'[WorkName(last'.n)] = work[WorkName(last'.n)]
      /\ (ClosingStep /\ LiveOn(handles[last'.h].name) \ {last'.h} # {}) =>
           last'.calls = <<>>
    ]_vars

\* C3: the close callback never runs a second time for a file object.
C3_CallbackOnce == \A h \in HandleIds : handles[h].cb <= 1

\* No other file object is open on the scratch file of h.
OnlyOpen(h) ==
  \A g \in HandleIds \ {h} : handles[g].st = "open" => handles[g].name # handles[h].name

\* The path was not in the registry of the node the open went through.
FreshOpen == last'.n.path \notin DOMAIN open_files[handles'[last'.h].node]

\* C4: round trip.  The close of the only handle on a path, opened for writing
\* and still on the scratch file of the path, persists and leaves the index
\* entry of the path at the object of the bytes the handle's file holds; and an open for reading that stages a path the index has an
\* entry for reads the bytes of that entry's object.
C4_RoundTrip ==
  [][ /\ (ClosingStep /\ handles[last'.h].mode = "w" /\ OnlyOpen(last'.h)
            /\ LiveSet(open_files, handles[last'.h].node, last'.n.path) = {last'.h}
            /\ handles[last'.h].name \in DOMAIN work
            /\ work[handles[last'.h].name] = handles[last'.h].ino) =>
           /\ last'.calls # <<>>
           /\ last'.n.path \in DOMAIN index'
           /\ index'[last'.n.path].object = Sha1(inodes[handles[last'.h].ino])
      /\ (last'.op = "open" /\ last'.exc = "" /\ handles'[last'.h].mode = "r"
            /\ FreshOpen /\ last'.n.path \in DOMAIN index) =>
           Sha1(inodes'[handles'[last'.h].ino]) = index[last'.n.path].object
    ]_vars

\* A path was written, closed and opened again for reading, and the handle
\* reads the bytes written.
C4_Witness ==
  /\ last.op = "open"
  /\ last.exc = ""
  /\ handles[last.h].mode = "r"
  /\ inodes[handles[last.h].ino] # <<>>
  /\ \E g \in HandleIds :
       /\ handles[g].st = "closed"
       /\ handles[g].mode = "w"
       /\ handles[g].name = handles[last.h].name

\* C5: an open that stages a path without an exact index entry stages no
\* bytes; and the close that empties the live-handle set, the scratch file
\* being there, adds to the index the entry of exactly that path, its object
\* the content left in the scratch file, after which the path exists.
C5_CreatedOnLastClose ==
  [][ /\ (last'.op = "open" /\ last'.exc = "" /\ FreshOpen /\ last'.n.path \notin DOMAIN index) =>
           inodes'[handles'[last'.h].ino] = <<>>
      /\ (ClosingStep /\ last'.h \in LiveSet(open_files, handles[last'.h].node, last'.n.path)
            /\ LiveSet(open_files, handles[last'.h].node, last'.n.path) = {last'.h}
            /\ handles[last'.h].name \in DOMAIN work) =>
           /\ DOMAIN index' = (DOMAIN index) \cup {last'.n.path}
           /\ index'[last'.n.path].object = Sha1(inodes[work[handles[last'.h].name]])
           /\ \A p \in (DOMAIN index) \ {last'.n.path} : index'[p] = index[p]
           /\ exists(index', last'.n)
    ]_vars

\* A path without an entry was opened and closed with nothing written: the
\* index now has the empty blob at it.
C5_Witness ==
  /\ last.op = "close"
  /\ last.calls # <<>>
  /\ handles[last.h].cb = 1
  /\ DOMAIN index = {last.n.path}
  /\ index[last.n.path].object = Sha1(<<>>)

\* ------------------------------------------------------------ the tree
\* a is b or an ancestor of b.
Ancestor(a, b) == a = Root \/ a = b \/ StartsWith(b, a \o <<SEP>>)
\* The index entries at a path or beneath it, and strictly beneath it.
AtOrUnder(idx, path) == { p \in DOMAIN idx : Ancestor(path, p) }
Beneath(idx, path) == AtOrUnder(idx, path) \ {path}
\* Where rename(A, B) takes the entry at p.
Image(a, b, p) == IF p = a THEN b ELSE b \o <<SEP>> \o Drop(p, Len(a) + 1)

RenameDone == last'.op = "rename" /\ last'.exc = ""

\* C6: after a.rename(b), a and b distinct and neither an ancestor of the
\* other, the index has no entry at a's former path or beneath it.
C6_NothingLeftAtSource ==
  [][ (RenameDone /\ ~Ancestor(last'.n.path, last'.m.path)
                  /\ ~Ancestor(last'.m.path, last'.n.path)) =>
        AtOrUnder(index', last'.n.path) = {}
    ]_vars

\* The rename submitted the images of the entries at and under a in one
\* update_index call, and the node returned has b's path.
OneUpdateOfImages(a, b) ==
  /\ Len(last'.calls) = 1
  /\ last'.calls[1].fn = "update_index"
  /\ { last'.calls[1].files[i].path : i \in 1..Len(last'.calls[1].files) }
       = { Image(a, b, p) : p \in AtOrUnder(index, a) }
  /\ last'.ret = b

\* Every entry at or under a is at its image afterwards, mode and object kept.
ImagesPresent(a, b) ==
  \A p \in AtOrUnder(index, a) :
    Image(a, b, p) \in DOMAIN index' /\ index'[Image(a, b, p)] = index[p]

\* C7 as stated: after a.rename(b) the entries at and under b are exactly the
\* images of the entries that were at and under a.
C7_TargetIsExactlyTheImage ==
  [][ RenameDone =>
        LET a == last'.n.path
            b == last'.m.path
        IN /\ ImagesPresent(a, b)
           /\ \A q \in AtOrUnder(index', b) :
                \E p \in AtOrUnder(index, a) : Image(a, b, p) = q
           /\ OneUpdateOfImages(a, b)
    ]_vars

\* C7 amended: after a.rename(b) every entry that was at or under a is at its
\* image under b, mode and object kept; an entry at or under b is such an
\* image, or an entry the index held there before that no image replaced; the
\* images went in one update_index call and the node returned has b's path.
C7_TargetHoldsTheImage ==
  [][ RenameDone =>
        LET a == last'.n.path
            b == last'.m.path
        IN /\ ImagesPresent(a, b)
           /\ \A q \in AtOrUnder(index', b) :
                \/ \E p \in AtOrUnder(index, a) : Image(a, b, p) = q
                \/ q \in DOMAIN index /\ index'[q] = index[q]
           /\ OneUpdateOfImages(a, b)
    ]_vars

\* A file and a placeholder beneath it were renamed to another path.
C7_Witness ==
  /\ last.op = "rename"
  /\ last.exc = ""
  /\ last.n.path # last.m.path
  /\ Len(last.calls) = 1
  /\ Len(last.calls[1].files) >= 2
  /\ \E i \in 1..Len(last.calls[1].files) : last.calls[1].files[i].object = Sha1(<<"x">>)

\* The first segments of the entries beneath a node, its own placeholder left out.
Relative(self, p) == IF self.path = Root THEN p ELSE Drop(p, Len(self.path) + 1)
ChildNames(idx, self) ==
  { SplitHead(Relative(self, p)) :
      p \in { q \in Beneath(idx, self.path) : Relative(self, q) # <<PLACEHOLDER>> } }
Count(seq, x) == Cardinality({ i \in 1..Len(seq) : seq[i] = x })

\* Iteration yields the children of the names, and nothing else.
YieldsTheChildren(idx, self) ==
  { __iter__(idx, self)[i] : i \in 1..Len(__iter__(idx, self)) }
    = { PathJoin(self.path, name) : name \in ChildNames(idx, self) }

C9_MkdirThenRmdir ==
  [][ /\ (last'.op = "mkdir" /\ last'.n.path # Root
            /\ exists(index, parent(last'.n)) /\ ~exists(index, last'.n)) =>
           last'.exc = "" /\ isdir(index', last'.n)
      /\ (last'.op = "rmdir" /\ last'.n.path # Root
            /\ AtOrUnder(index, last'.n.path) = { last'.n.path \o <<SEP, PLACEHOLDER>> }) =>
           ~isdir(index', last'.n) /\ ~exists(index', last'.n)
    ]_vars

\* A directory made by mkdir (the empty object is in the store) was removed by
\* rmdir and is no directory any more.
C9_Witness ==
  /\ last.op = "rmdir"
  /\ last.n.path # Root
  /\ Sha1(EmptyContent) \in objects
  /\ index = EmptyDict
  /\ ~isdir(index, last.n)

\* C10: a comparison of two nodes whose repository or index differ answers
\* "not comparable" whatever the operator; of two nodes of one repository and
\* index, equality and order are those of the paths.
C10_NotComparableAcrossIndexes ==
  (last.op \in CmpOps /\ last.n.used /\ last.m.used) =>
    IF last.n.repo # last.m.repo \/ last.n.index # last.m.index
    THEN last.res = "NotImplemented"
    ELSE last.res =
      (CASE last.op = "__eq__" -> IF last.n.path = last.m.path THEN "True" ELSE "False"
         [] last.op = "__ne__" -> IF last.n.path # last.m.path THEN "True" ELSE "False"
         [] last.op = "__lt__" -> IF StrLess(last.n.path, last.m.path) THEN "True" ELSE "False"
         [] last.op = "__gt__" -> IF StrLess(last.m.path, last.n.path) THEN "True" ELSE "False"
         [] last.op = "__le__" -> IF ~StrLess(last.m.path, last.n.path) THEN "True" ELSE "False"
         [] last.op = "__ge__" -> IF ~StrLess(last.n.path, last.m.path) THEN "True" ELSE "False")

\* ------------------------------------------------------------ mkdir
\* The path has an entry at it or beneath it; the root always exists.
PathExists(idx, path) == path = Root \/ AtOrUnder(idx, path) # {}

\* The placeholder entry of a directory.
PlaceholderOf(path) ==
  [path |-> (IF path = Root THEN <<>> ELSE path \o <<SEP>>) \o <<PLACEHOLDER>>,
   mode |-> "100644", object |-> Sha1(<<>>)]

\* The step stored nothing.
NothingStored == last'.calls = <<>> /\ index' = index /\ objects' = objects

\* C11: mkdir(may_exist, create_parents) raises EEXIST whenever the path
\* exists and may_exist is false, the root included; otherwise, create_parents
\* being false, it raises ENOENT whenever the path is not the root and its
\* parent does not exist; a failure writes no object and leaves the index as
\* it was; a success writes the empty object and exactly one entry,
\* <path>/.gitfs-placeholder with mode 100644 and the empty object.
C11_MkdirOutcome ==
  [][ \A self \in TreeNodes, may_exist \in BOOLEAN, create_parents \in BOOLEAN :
        Mkdir(self, may_exist, create_parents) =>
          IF ~may_exist /\ PathExists(index, self.path)
          THEN last'.exc = "EEXIST" /\ NothingStored
          ELSE IF ~create_parents /\ self.path # Root
                  /\ ~PathExists(index, SplitDir(self.path))
          THEN last'.exc = "ENOENT" /\ NothingStored
          ELSE /\ last'.exc = ""
               /\ last'.calls = << Call("write_object", <<>>, <<>>),
                                   Call("update_index", << PlaceholderOf(self.path) >>, <<>>) >>
               /\ objects' = objects \cup {Sha1(<<>>)}
               /\ DOMAIN index' = (DOMAIN index) \cup {PlaceholderOf(self.path).path}
               /\ index'[PlaceholderOf(self.path).path]
                    = [mode |-> "100644", object |-> Sha1(<<>>)]
               /\ \A p \in (DOMAIN index) \ {PlaceholderOf(self.path).path} :
                    index'[p] = index[p]
    ]_vars

\* mkdir below a parent that does not exist was refused, in an index that
\* holds a directory made by an earlier mkdir.
C11_Witness ==
  /\ last.op = "mkdir"
  /\ last.exc = "ENOENT"
  /\ last.calls = <<>>
  /\ ~PathExists(index, SplitDir(last.n.path))
  /\ \E p \in DOMAIN index : index[p] = [mode |-> "100644", object |-> Sha1(<<>>)]

\* ------------------------------------------------------- navigation
\* A segment a child() call must refuse.
BadSegment(segment) == HasSep(segment) \/ segment = <<".", ".">>

\* The call raised InsecurePathError and returned no node.
Refused == last'.exc = "InsecurePathError" /\ ~last'.m.used /\ nodes' = nodes

\* C12: join(s) raises InsecurePathError for every s that begins with '/',
\* and child(seg1, ..., segn) raises it whenever one of the segments contains
\* '/' or is '..', whatever the segments before it; no node is returned.
C12_InsecurePathsRefused ==
  [][ /\ \A relpath \in NavStrings :
           (Join(relpath) /\ relpath # <<>> /\ relpath[1] = SEP) => Refused
      /\ \A segments \in NavSegmentLists :
           (Child(segments) /\ \E i \in 1..Len(segments) : BadSegment(segments[i])) => Refused
    ]_vars

\* From a node below the root, a call was refused.
C12_Witness ==
  /\ last.op \in {"join", "child"}
  /\ last.exc = "InsecurePathError"
  /\ last.n.path # Root
  /\ nodes[1] = last.n

\* The segments of a path.
RECURSIVE Segments(_)
Segments(path) ==
  IF ~HasSep(path) THEN {path}
  ELSE {SplitHead(path)} \cup Segments(Drop(path, Len(SplitHead(path)) + 1))

\* C14: no node reached from the root by join(), child() and parent() has a
\* path that is absolute or has a '..' segment.
C14_PathStaysInTree ==
  \A n \in NodeIds :
    nodes[n].used =>
      /\ ~StartsWith(nodes[n].path, <<SEP>>)
      /\ <<".", ".">> \notin Segments(nodes[n].path)

\* ------------------------------------------------------- exists, isdir
\* The nodes queried: those of the tree and one at every path of the index.
ProbeNodes(idx) == TreeNodes \cup { IndexFS(REPO, INDEX, p) : p \in DOMAIN idx }

\* exists() is true of the root, and of another path exactly when the index
\* has an entry at it or beneath it.
ExistsMatches(idx) ==
  /\ exists(idx, RootNode)
  /\ \A self \in ProbeNodes(idx) :
       self.path # Root =>
         (exists(idx, self) <=> \E p \in DOMAIN idx : p = self.path \/ StartsWith(p, self.path \o <<SEP>>))

\* C13: in every index state exists() is true of the root, the empty index
\* included, and of any other path exactly when the index has an entry at
\* the path or beneath it; after remove() of a path that has an entry and
\* nothing beneath it, exists() of the path is false.
C13_ExistsIffEntry ==
  [][ /\ ExistsMatches(index)
      /\ ExistsMatches(index')
      /\ (last'.op = "remove" /\ last'.n.path # Root
            /\ last'.n.path \in DOMAIN index /\ Beneath(index, last'.n.path) = {}) =>
           ~exists(index', last'.n)
    ]_vars

\* A file written at a path was removed; other entries are left, the path
\* does not exist any more.
C13_Witness ==
  /\ last.op = "remove"
  /\ last.n.path # Root
  /\ Sha1(<<"x">>) \in objects
  /\ index # EmptyDict
  /\ ~exists(index, last.n)
  /\ exists(index, RootNode)

OpenThrough(n) ==
  { h \in HandleIds : handles[h].st = "open" /\ handles[h].cb = 0
                        /\ handles[h].node = n
                        /\ handles[h].name = WorkName(nodes[n]) }

\* C16: for a node that alone denotes its path, after any opens and closes,
\* closes during which a store call fails included, the registry has a key
\* for the path exactly when a handle on the path is live, it never maps the
\* path to an empty set, and the scratch file of the path is there exactly
\* while the registry has the key.
C16_RegistryMatchesScratch ==
  \A n \in NodeIds :
    (nodes[n].used /\ OnlyNodeOnPath(n)) =>
      LET path == nodes[n].path
          keyed == path \in DOMAIN open_files[n]
      IN /\ keyed => open_files[n][path] # {}
         /\ keyed <=> OpenThrough(n) # {}
         /\ keyed <=> WorkName(nodes[n]) \in DOMAIN work

\* ------------------------------------------------- files and directories
\* C17: no operation of the interface leaves the index with a path that has
\* both an entry of its own and an entry beneath it.
C17_NoFileWithChildren ==
  \A p \in DOMAIN index : Beneath(index, p) = {}

\* ------------------------------------------------- rename of an open node
\* The path a file object was opened on.
OpenedOn(h) == handles[h].name[2]

\* C18: a handle is released against the path it was opened on.  When the
\* node was renamed since, close() of the handle raises nothing and takes
\* the handle out of the live set of that path; the close of the last handle
\* writes the scratch content back, deletes the registry key and the scratch
\* file.
C18_ReleasedAgainstOpenedPath ==
  [][ \A h \in HandleIds :
        LET n == handles[h].node
            was == LiveSet(open_files, n, OpenedOn(h))
        IN (/\ last'.op = "close" /\ last'.h = h
            /\ handles[h].st = "open" /\ handles[h].cb = 0
            /\ h \in was
            /\ handles[h].name \in DOMAIN work
            /\ nodes[n].path # OpenedOn(h)) =>
             /\ last'.exc = ""
             /\ h \notin LiveSet(open_files', n, OpenedOn(h))
             /\ was = {h} =>
                  /\ OpenedOn(h) \notin DOMAIN open_files'[n]
                  /\ handles[h].name \notin DOMAIN work'
                  /\ Len(last'.calls) = 2
    ]_vars

\* ------------------------------------------------- rename that fails
\* C19: rename() to a target that is no IndexFS raises
\* CrossDeviceRenameError before any store call; when the one update_index
\* call raises, the exception reaches the caller, the index is as before and
\* the node still has the source path: the path changes only when rename()
\* has raised nothing.
C19_RenameFailsWhole ==
  [][ last'.op = "rename" =>
        /\ ~last'.m.used =>
             /\ last'.exc = "CrossDeviceRenameError"
             /\ last'.calls = <<>>
             /\ index' = index /\ objects' = objects
        /\ (\E self, new_path \in TreeNodes : RenameFailing(self, new_path)) =>
             /\ last'.exc = "StoreError"
             /\ Len(last'.calls) = 1
             /\ index' = index /\ objects' = objects
        /\ last'.exc # "" => last'.ret = last'.n.path
    ]_vars

\* update_index raised during the rename of a path that has entries to a
\* different path.
C19_Witness ==
  /\ last.op = "rename"
  /\ last.exc = "StoreError"
  /\ last.n.path # last.m.path
  /\ last.ret = last.n.path
  /\ Len(last.calls) = 1
  /\ Len(last.calls[1].files) >= 1
  /\ AtOrUnder(index, last.n.path) # {}

\* ------------------------------------------------------------ removal
\* The step submitted one removal entry (mode 0, the all-zero object) for
\* exactly the path and nothing else, and left every other index entry, the
\* object store, the registries, the file objects and the scratch files alone.
OnlyRemoved(path) ==
  /\ last'.exc = ""
  /\ last'.calls =
       << Call("update_index",
               << [path |-> path, mode |-> "0",
                   object |-> "0000000000000000000000000000000000000000"] >>,
               <<>>) >>
  /\ DOMAIN index' = (DOMAIN index) \ {path}
  /\ \A q \in DOMAIN index' : index'[q] = index[q]
  /\ objects' = objects
  /\ open_files' = open_files
  /\ handles' = handles
  /\ work' = work
  /\ inodes' = inodes

\* C20: remove()/unlink() of a path submits exactly one removal entry, for
\* exactly the path, and rmdir() exactly one, for <path>/.gitfs-placeholder;
\* each leaves every other index entry, the other descendants of the path
\* included, the registry and the scratch files as they were.
C20_RemovalFrame ==
  [][ /\ last'.op = "remove" => OnlyRemoved(last'.n.path)
      /\ last'.op = "rmdir" => OnlyRemoved(PlaceholderOf(last'.n.path).path)
    ]_vars

\* rmdir() of a directory that was made by mkdir and holds another entry,
\* called while a file is open: the other entry, the registry and the scratch
\* file are still there.
C20_Witness ==
  /\ last.op = "rmdir"
  /\ last.n.path # Root
  /\ Sha1(<<>>) \in objects
  /\ PlaceholderOf(last.n.path).path \notin DOMAIN index
  /\ Beneath(index, last.n.path) # {}
  /\ \E n \in NodeIds : open_files[n] # EmptyDict
  /\ work # EmptyDict

====
